---- MODULE Spec2Model ----
(***************************************************************************)
(* Model of the prompt execution pipeline of llm-cron-app: the prompts and *)
(* execution_history tables, the prompt CRUD handlers, and the two entry   *)
(* points executePrompt and webhookExecution, one action per step between  *)
(* two awaits of a handler.                                                *)
(*                                                                         *)
(* Conventions.  A nullable column or an optional input is a tuple of      *)
(* length 0 (null / absent) or 1 (the value).  A string that the code      *)
(* scans (a template, a key, a rendered prompt) is a sequence of           *)
(* one-character strings; a string that the code only builds or stores (a  *)
(* message, a response body text) is a TLA+ string.                        *)
(***************************************************************************)
EXTENDS Integers, Sequences, FiniteSets, TLC

VARIABLES
  prompts,      \* promptsTable: id -> row, for the ids that exist
  history,      \* executionHistoryTable: the set of rows
  nextPromptId, \* the serial of promptsTable.id
  nextExecId,   \* the serial of executionHistoryTable.id
  now,          \* the database clock behind defaultNow() and new Date()
  inv           \* the invocations of the two entry points: slot -> locals

vars == <<prompts, history, nextPromptId, nextExecId, now, inv>>

----------------------------------------------------------------------------
(* Bounds of the model. *)

MaxPrompts == 1
MaxInv == 1
MaxClock == 1

Slots == 1..MaxInv

----------------------------------------------------------------------------
(* Nullable values. *)

Null == <<>>
Some(x) == <<x>>

----------------------------------------------------------------------------
(* JavaScript values that can occur in a data mapping, and String(value). *)

StrV(s) == [t |-> "string", s |-> s, n |-> 0]
NumV(n) == [t |-> "number", s |-> <<>>, n |-> n]
NullV == [t |-> "null", s |-> <<>>, n |-> 0]
FnV(name) == [t |-> "function", s |-> name, n |-> 0]
UndefinedV == [t |-> "undefined", s |-> <<>>, n |-> 0]

DigitChars == <<"0", "1", "2", "3", "4", "5", "6", "7", "8", "9">>

RECURSIVE Digits(_)
Digits(n) ==
  IF n < 10 THEN <<DigitChars[n + 1]>>
  ELSE Digits(n \div 10) \o <<DigitChars[(n % 10) + 1]>>

\* String(v) of execute_prompt.ts:10 and webhook_execution.ts:29.  The text
\* of a native function contains neither "{{" nor a word character next to
\* a brace, so it is kept as one inert element.
JSString(v) ==
  CASE v.t = "string" -> v.s
    [] v.t = "number" -> Digits(v.n)
    [] v.t = "null" -> <<"n", "u", "l", "l">>
    [] v.t = "function" -> <<"function ">> \o v.s \o <<"() { [native code] }">>
    [] OTHER -> <<"u", "n", "d", "e", "f", "i", "n", "e", "d">>

\* The characters \w of a regular expression that the model's strings use.
WordChars ==
  {"a", "b", "c", "e", "l", "n", "o", "r", "s", "t", "u", "v", "O", "f",
   "X", "Y", "_", "0", "1", "2", "3", "4", "5", "6", "7", "8", "9"}

IsWordChar(c) == c \in WordChars

\* The own-property-less keys every plain object answers: data[key] reads
\* Object.prototype when key is not an own property.
ObjectPrototypeKeys == {<<"v", "a", "l", "u", "e", "O", "f">>}

\* data[key] of execute_prompt.ts:10; data is a sequence of entries
\* [key, value] in Object.entries order, with distinct keys.
Get(data, key) ==
  IF \E j \in 1..Len(data) : data[j].key = key
  THEN data[CHOOSE j \in 1..Len(data) : data[j].key = key].value
  ELSE IF key \in ObjectPrototypeKeys THEN FnV(key)
  ELSE UndefinedV

----------------------------------------------------------------------------
(* renderTemplate of execute_prompt.ts. *)

\* The length of the longest run of \w characters of s from position i.
RECURSIVE WordRun(_, _)
WordRun(s, i) ==
  IF i <= Len(s) /\ IsWordChar(s[i]) THEN 1 + WordRun(s, i + 1) ELSE 0

\* /\{\{(\w+)\}\}/ at position i of s: the length of the key it captures,
\* or 0 when it does not match there.
MatchAt(s, i) ==
  IF i + 1 <= Len(s) /\ s[i] = "{" /\ s[i + 1] = "{"
  THEN LET n == WordRun(s, i + 2)
       IN IF /\ n >= 1
             /\ i + n + 3 <= Len(s)
             /\ s[i + n + 2] = "}"
             /\ s[i + n + 3] = "}"
          THEN n
          ELSE 0
  ELSE 0

\* The replacer callback: the value's string when data[key] is not
\* undefined, else the match itself.
Replacer(match, key, data) ==
  LET v == Get(data, key)
  IN IF v # UndefinedV THEN JSString(v) ELSE match

RECURSIVE RenderFrom(_, _, _)
RenderFrom(s, data, i) ==
  IF i > Len(s) THEN <<>>
  ELSE LET n == MatchAt(s, i)
       IN IF n = 0
          THEN <<s[i]>> \o RenderFrom(s, data, i + 1)
          ELSE Replacer(SubSeq(s, i, i + n + 3), SubSeq(s, i + 2, i + n + 1), data)
                 \o RenderFrom(s, data, i + n + 4)

\* A mutant of renderTemplate: the regular expression shared by the calls,
\* each scan starting where the calls before it moved lastIndex to.
renderTemplateSticky(template, template_data) ==
  RenderFrom(template, IF template_data = Null THEN <<>> ELSE template_data[1],
             1 + Cardinality({j \in DOMAIN inv : inv[j].renderedPrompt # <<>>}))

\* template_data is optional: the parameter defaults to {}.
renderTemplate(template, template_data) ==
  RenderFrom(template, IF template_data = Null THEN <<>> ELSE template_data[1], 1)

----------------------------------------------------------------------------
(* The rendering loop of webhook_execution.ts. *)

DigitValue(c) == (CHOOSE k \in 1..10 : DigitChars[k] = c) - 1

IsDigit(c) == \E k \in 1..10 : DigitChars[k] = c

RECURSIVE Numeral(_)
Numeral(s) ==
  IF s = <<>> THEN 0
  ELSE 10 * Numeral(SubSeq(s, 1, Len(s) - 1)) + DigitValue(s[Len(s)])

RECURSIVE Repeat(_, _)
Repeat(c, n) == IF n = 0 THEN <<>> ELSE <<c>> \o Repeat(c, n - 1)

\* What new RegExp(`{{${key}}}`, 'g') matches, for a key of \w characters:
\* a brace that opens no quantifier is a literal, so the source is the
\* literal {{key}}, except that for a key of digits {key} is a quantifier
\* of the first brace and the pattern is key times "{" and then "}".
Placeholder(key) ==
  IF key # <<>> /\ \A j \in 1..Len(key) : IsDigit(key[j])
  THEN Repeat("{", Numeral(key)) \o <<"}">>
  ELSE <<"{", "{">> \o key \o <<"}", "}">>

LiteralAt(s, i, pat) ==
  /\ i + Len(pat) - 1 <= Len(s)
  /\ SubSeq(s, i, i + Len(pat) - 1) = pat

\* The replacement string of String.prototype.replace: $$ is a dollar and
\* $& is the matched text; every other character stands for itself.
RECURSIVE Expand(_, _)
Expand(repl, match) ==
  IF repl = <<>> THEN <<>>
  ELSE IF Len(repl) >= 2 /\ repl[1] = "$" /\ repl[2] = "$"
       THEN <<"$">> \o Expand(SubSeq(repl, 3, Len(repl)), match)
  ELSE IF Len(repl) >= 2 /\ repl[1] = "$" /\ repl[2] = "&"
       THEN match \o Expand(SubSeq(repl, 3, Len(repl)), match)
  ELSE <<repl[1]>> \o Expand(Tail(repl), match)

\* s.replace(new RegExp(pat, 'g'), repl): every match from left to right,
\* not overlapping, the replacement not scanned again.
RECURSIVE ReplaceAll(_, _, _, _)
ReplaceAll(s, pat, repl, i) ==
  IF i > Len(s) THEN <<>>
  ELSE IF LiteralAt(s, i, pat)
       THEN Expand(repl, pat) \o ReplaceAll(s, pat, repl, i + Len(pat))
       ELSE <<s[i]>> \o ReplaceAll(s, pat, repl, i + 1)

\* for (const [key, value] of Object.entries(input.payload)) ...
RECURSIVE RenderPayload(_, _, _)
RenderPayload(renderedPrompt, payload, j) ==
  IF j > Len(payload) THEN renderedPrompt
  ELSE RenderPayload(
         ReplaceAll(renderedPrompt, Placeholder(payload[j].key),
                    JSString(payload[j].value), 1),
         payload, j + 1)

webhookRender(prompt_text, payload) == RenderPayload(prompt_text, payload, 1)

----------------------------------------------------------------------------
(* The inputs the model draws from. *)

\* "{{a}}!"
TplA == <<"{", "{", "a", "}", "}", "!">>
\* "{{b}}?"
TplB == <<"{", "{", "b", "}", "}", "?">>

Templates == {TplA, TplB}

Entry(key, value) == [key |-> key, value |-> value]

\* {a: "{{b}}", b: "Y"}: a value that holds a placeholder of a later key
DataNested ==
  <<Entry(<<"a">>, StrV(<<"{", "{", "b", "}", "}">>)), Entry(<<"b">>, StrV(<<"Y">>))>>

Mappings == {<<>>, DataNested}

\* ExecutePromptInput.template_data is optional, WebhookExecutionInput.payload
\* is not (schema.ts).
TemplateDatas == {Null} \cup {Some(m) : m \in Mappings}
Payloads == {Some(m) : m \in Mappings}

\* The ids a caller may name: those the serial can give, and one it never gives.
PromptIds == 1..(MaxPrompts + 1)

----------------------------------------------------------------------------
(* What the two outbound calls can answer. *)

\* A mutant of Ok: every answer at or above 200 taken for a success.
OkAtLeast200(status) == status >= 200

\* response.ok
Ok(status) == status >= 200 /\ status <= 299

\* A thrown value: `e instanceof Error` and e.message.
Thrown(isError, message) == [isError |-> isError, message |-> message]

\* A parsed JSON body, by what the handlers read of it: whether it is an
\* object, its own keys, choices[0].message.content, error.message.
Json(type, keys, content, errmsg) ==
  [type |-> type, keys |-> keys, content |-> content, errmsg |-> errmsg,
   error |-> Null]

BodyContent == Json("object", {"choices"}, Some("Generated response"), Null)
BodyNoContent == Json("object", {"choices"}, Null, Null)
BodyBlank == Json("object", {"choices"}, Some(""), Null)
BodyError == Json("object", {"error"}, Null, Some("Invalid API key"))
\* {}
BodyEmpty == Json("object", {}, Null, Null)
\* null
BodyNull == Json("null", {}, Null, Null)

\* { error: errorMessage } of webhook_execution.ts:100
ErrorShape(message) ==
  [type |-> "object", keys |-> {"error"}, content |-> Null, errmsg |-> Null,
   error |-> Some(message)]

\* fetch rejects, or resolves to a response whose json() rejects or
\* resolves to a body.
FetchRejected(e) == [t |-> "rejected", e |-> e, status |-> 0, parsed |-> FALSE, body |-> BodyEmpty]
JsonRejected(status, e) == [t |-> "response", e |-> e, status |-> status, parsed |-> FALSE, body |-> BodyEmpty]
JsonBody(status, body) ==
  [t |-> "response", e |-> Thrown(TRUE, ""), status |-> status, parsed |-> TRUE, body |-> body]

CompletionOutcomes ==
  {FetchRejected(Thrown(TRUE, "fetch failed")),
   JsonRejected(200, Thrown(TRUE, "Unexpected token < in JSON")),
   JsonBody(200, BodyContent),
   JsonBody(200, BodyNoContent),
   JsonBody(200, BodyBlank),
   JsonBody(200, BodyEmpty),
   JsonBody(200, BodyNull),
   JsonBody(401, BodyError),
   JsonBody(401, BodyEmpty),
   JsonBody(401, BodyNull)}

\* fetch rejects, or resolves to a response whose text() rejects or
\* resolves to the body text.
SendRejected(e) == [t |-> "rejected", e |-> e, status |-> 0, read |-> FALSE, text |-> ""]
TextRejected(status, e) == [t |-> "response", e |-> e, status |-> status, read |-> FALSE, text |-> ""]
TextBody(status, text) ==
  [t |-> "response", e |-> Thrown(TRUE, ""), status |-> status, read |-> TRUE, text |-> text]

DeliveryOutcomes ==
  {SendRejected(Thrown(TRUE, "connect ECONNREFUSED")),
   SendRejected(Thrown(FALSE, "")),
   TextRejected(200, Thrown(TRUE, "terminated")),
   TextBody(200, "OK"),
   TextBody(204, ""),
   TextBody(500, "Internal Server Error")}

----------------------------------------------------------------------------
(* The state after construction: empty tables, no invocation running. *)

\* The locals of one invocation.  completion, delivery, completionRequests,
\* deliveryRequests, sent and inserted record what the invocation received
\* and did (sent is the body of its delivery request); the handlers do not
\* read them.
IdleInv ==
  [pc |-> "idle",
   handler |-> "none",
   prompt_id |-> 0,
   data |-> Null,
   prompt |-> Null,
   renderedPrompt |-> <<>>,
   openaiResponse |-> BodyEmpty,
   webhookResponseStatus |-> Null,
   webhookResponseBody |-> Null,
   executionStatus |-> "success",
   errorMessage |-> Null,
   thrown |-> Null,
   result |-> Null,
   completion |-> Null,
   delivery |-> Null,
   completionRequests |-> 0,
   deliveryRequests |-> 0,
   sent |-> Null,
   inserted |-> 0]

Init ==
  /\ prompts = <<>>
  /\ history = {}
  /\ nextPromptId = 1
  /\ nextExecId = 1
  /\ now = 0
  /\ inv = [i \in Slots |-> IdleInv]

\* Time passes, or not, between two statements.
Later == {now} \cup (IF now < MaxClock THEN {now + 1} ELSE {})

Exists(id) == id \in DOMAIN prompts

\* A mutant of Active: the check of is_active forgotten.
ActiveAlways(row) == TRUE

\* prompt.is_active, as the two entry points test it
Active(row) == row.is_active

\* Remove(f, id): the table f without the row id.
Remove(f, id) == [k \in DOMAIN f \ {id} |-> f[k]]

----------------------------------------------------------------------------
(* The prompt CRUD handlers. *)

\* What the caller of a CRUD handler gets: the value returned or the error
\* thrown.  It is kept in slot 0 of inv in the specifications that have
\* this slot, and dropped in the others.
Reply(handler, input, result, thrown) ==
  IF 0 \in DOMAIN inv
  THEN inv' = [inv EXCEPT ![0] =
                 [IdleInv EXCEPT !.pc = "caller", !.handler = handler,
                                 !.data = Some(input), !.result = result,
                                 !.thrown = thrown]]
  ELSE UNCHANGED inv

\* createPrompt: one insert; id from the serial, both timestamps defaultNow().
createPrompt(prompt_text, is_active) ==
  /\ prompts' =
       [k \in DOMAIN prompts \cup {nextPromptId} |->
          IF k = nextPromptId
          THEN [id |-> nextPromptId,
                prompt_text |-> prompt_text,
                is_active |-> is_active,
                created_at |-> now,
                updated_at |-> now]
          ELSE prompts[k]]
  /\ nextPromptId' = nextPromptId + 1
  /\ now' \in Later
  /\ Reply("createPrompt", [prompt_text |-> prompt_text, is_active |-> is_active],
           Some(prompts'[nextPromptId]), Null)
  /\ UNCHANGED <<history, nextExecId>>

UpdateInputs ==
  [id : PromptIds,
   prompt_text : {Null} \cup {Some(t) : t \in Templates},
   is_active : {Null, Some(TRUE), Some(FALSE)}]

\* A mutant of Updated: is_active written from the input also when the
\* input does not have it, the undefined taken for false.
UpdatedActiveAlways(row, input) ==
  [row EXCEPT
     !.prompt_text = IF input.prompt_text # Null THEN input.prompt_text[1] ELSE @,
     !.is_active = IF input.is_active # Null THEN input.is_active[1] ELSE FALSE,
     !.updated_at = now]

\* The row after .set(updateValues): the fields that are not undefined in
\* the input, and updated_at.
Updated(row, input) ==
  [row EXCEPT
     !.prompt_text = IF input.prompt_text # Null THEN input.prompt_text[1] ELSE @,
     !.is_active = IF input.is_active # Null THEN input.is_active[1] ELSE @,
     !.updated_at = now]

\* updatePrompt: one update ... where id = input.id; it throws when no row
\* was updated.
updatePrompt(input) ==
  /\ prompts' =
       IF Exists(input.id)
       THEN [prompts EXCEPT ![input.id] = Updated(@, input)]
       ELSE prompts
  /\ now' \in Later
  /\ IF Exists(input.id)
     THEN Reply("updatePrompt", input, Some(Updated(prompts[input.id], input)), Null)
     ELSE Reply("updatePrompt", input, Null,
                Some("Prompt with id " \o ToString(input.id) \o " not found"))
  /\ UNCHANGED <<history, nextPromptId, nextExecId>>

\* A mutant of deletePrompt: the foreign key without onDelete cascade and
\* not enforced, so the records of the prompt stay.
deletePromptNoCascade(id) ==
  /\ prompts' = Remove(prompts, id)
  /\ UNCHANGED <<history, nextPromptId, nextExecId, now, inv>>

\* A mutant of deletePrompt: success true whatever the delete returned.
deletePromptAlwaysTrue(id) ==
  /\ prompts' = Remove(prompts, id)
  /\ history' = {r \in history : r.prompt_id # id}
  /\ Reply("deletePrompt", id, Some([success |-> TRUE]), Null)
  /\ UNCHANGED <<nextPromptId, nextExecId, now>>

\* deletePrompt: one delete ... where id = id; execution_history.prompt_id
\* references prompts.id with onDelete cascade.
deletePrompt(id) ==
  /\ prompts' = Remove(prompts, id)
  /\ history' = {r \in history : r.prompt_id # id}
  /\ Reply("deletePrompt", id, Some([success |-> Exists(id)]), Null)
  /\ UNCHANGED <<nextPromptId, nextExecId, now>>

----------------------------------------------------------------------------
(* What the two entry points share in the model. *)

\* A mutant of Set: the locals held in module scope, one copy for all the
\* invocations.
SetShared(i, locals) == inv' = [j \in DOMAIN inv |-> locals]

Set(i, locals) == inv' = [inv EXCEPT ![i] = locals]

\* Slots are taken in order.
Free(i) == inv[i].pc = "idle" /\ \A j \in DOMAIN inv : j < i => inv[j].pc # "idle"

\* A mutant of Throw: the outer catch logs the error and does not rethrow
\* it, so the handler returns undefined.
Swallow(l, message) == [l EXCEPT !.pc = "done"]

\* A mutant of Throw: the outer catch starts the handler again.
ThrowRetry(l, message) == [l EXCEPT !.pc = "fetching-prompt"]

\* throw e, not caught by anything but the outer catch, which rethrows.
Throw(l, message) == [l EXCEPT !.pc = "error", !.thrown = Some(message)]

\* e instanceof Error ? e.message : fallback
MessageOf(e, fallback) == IF e.isError THEN e.message ELSE fallback

\* A mutant of Row: error_message left out of the values.
RowWithoutError(l, trigger_type, input_data) ==
  [id |-> nextExecId,
   prompt_id |-> l.prompt_id,
   trigger_type |-> trigger_type,
   input_data |-> input_data,
   rendered_prompt |-> l.renderedPrompt,
   openai_response |-> l.openaiResponse,
   webhook_response_status |-> l.webhookResponseStatus,
   webhook_response_body |-> l.webhookResponseBody,
   execution_status |-> l.executionStatus,
   error_message |-> Null,
   created_at |-> now]

\* A mutant of Row: the delivery status kept only with a delivery body.
RowStatusWithBody(l, trigger_type, input_data) ==
  [id |-> nextExecId,
   prompt_id |-> l.prompt_id,
   trigger_type |-> trigger_type,
   input_data |-> input_data,
   rendered_prompt |-> l.renderedPrompt,
   openai_response |-> l.openaiResponse,
   webhook_response_status |->
     IF l.webhookResponseBody = Null THEN Null ELSE l.webhookResponseStatus,
   webhook_response_body |-> l.webhookResponseBody,
   execution_status |-> l.executionStatus,
   error_message |-> l.errorMessage,
   created_at |-> now]

\* The row an insert into execution_history adds: id from the serial,
\* created_at defaultNow().
Row(l, trigger_type, input_data) ==
  [id |-> nextExecId,
   prompt_id |-> l.prompt_id,
   trigger_type |-> trigger_type,
   input_data |-> input_data,
   rendered_prompt |-> l.renderedPrompt,
   openai_response |-> l.openaiResponse,
   webhook_response_status |-> l.webhookResponseStatus,
   webhook_response_body |-> l.webhookResponseBody,
   execution_status |-> l.executionStatus,
   error_message |-> l.errorMessage,
   created_at |-> now]

\* A mutant of InsertFails: no foreign key and no NOT NULL constraint.
InsertNeverFails(row) == {FALSE}

\* The insert fails when prompt_id references no prompt (the foreign key of
\* db/schema.ts:31).  openai_response is a NOT NULL jsonb column
\* (db/schema.ts:35): whether a JSON null is sent as SQL NULL is the
\* driver's affair, so for it the insert may fail or not.
InsertFails(row) ==
  IF ~Exists(row.prompt_id) THEN {TRUE}
  ELSE IF row.openai_response.type = "null" THEN {TRUE, FALSE}
  ELSE {FALSE}

\* The error of a failed insert.
InsertError == "insert into execution_history failed"

\* A mutant of Insert: the prompt deactivated once its record is written.
InsertDeactivating(i, row) ==
  \E fails \in InsertFails(row) :
    /\ nextExecId' = nextExecId + 1
    /\ IF fails
       THEN /\ Set(i, Throw(inv[i], InsertError))
            /\ UNCHANGED <<history, now, prompts>>
       ELSE /\ history' = history \cup {row}
            /\ Set(i, [inv[i] EXCEPT !.pc = "done", !.result = Some(row),
                                      !.inserted = @ + 1])
            /\ now' \in Later
            /\ prompts' = [prompts EXCEPT ![row.prompt_id].is_active = FALSE]
    /\ UNCHANGED nextPromptId

\* A mutant of Insert: an upsert on prompt_id, the new row taking the place
\* of the rows the prompt had.
InsertReplacing(i, row) ==
  \E fails \in InsertFails(row) :
    /\ nextExecId' = nextExecId + 1
    /\ IF fails
       THEN /\ Set(i, Throw(inv[i], InsertError))
            /\ UNCHANGED <<history, now>>
       ELSE /\ history' = {r \in history : r.prompt_id # row.prompt_id} \cup {row}
            /\ Set(i, [inv[i] EXCEPT !.pc = "done", !.result = Some(row),
                                      !.inserted = @ + 1])
            /\ now' \in Later
    /\ UNCHANGED <<prompts, nextPromptId>>

\* The insert and the return of its row, or the throw of its failure.  The
\* serial is taken before the constraints are checked.
Insert(i, row) ==
  \E fails \in InsertFails(row) :
    /\ nextExecId' = nextExecId + 1
    /\ IF fails
       THEN /\ Set(i, Throw(inv[i], InsertError))
            /\ UNCHANGED <<history, now>>
       ELSE /\ history' = history \cup {row}
            /\ Set(i, [inv[i] EXCEPT !.pc = "done", !.result = Some(row),
                                      !.inserted = @ + 1])
            /\ now' \in Later
    /\ UNCHANGED <<prompts, nextPromptId>>

\* The caller (index.ts:58-64) has the record or the error of a finished
\* invocation; its locals are gone.
respond(i) ==
  /\ inv[i].pc \in {"done", "error"}
  /\ Set(i, [IdleInv EXCEPT !.pc = "returned"])
  /\ UNCHANGED <<prompts, history, nextPromptId, nextExecId, now>>

----------------------------------------------------------------------------
(* executePrompt (execute_prompt.ts:14-126), one action per await. *)

\* The call, up to the select.
executePrompt(i, prompt_id, template_data) ==
  /\ Free(i)
  /\ Set(i, [inv[i] EXCEPT !.pc = "fetching-prompt", !.handler = "executePrompt",
                            !.prompt_id = prompt_id, !.data = template_data])
  /\ UNCHANGED <<prompts, history, nextPromptId, nextExecId, now>>

\* Lines 17-54: the select answers; the checks, the rendering and the
\* completion request.
executePromptFetched(i) ==
  LET l == inv[i] IN
  /\ l.handler = "executePrompt" /\ l.pc = "fetching-prompt"
  /\ IF ~Exists(l.prompt_id)
     THEN Set(i, Throw(l, "Prompt with id " \o ToString(l.prompt_id) \o " not found"))
     ELSE IF ~Active(prompts[l.prompt_id])
     THEN Set(i, Throw(l, "Prompt with id " \o ToString(l.prompt_id) \o " is not active"))
     ELSE Set(i, [l EXCEPT
            !.pc = "completing",
            !.prompt = Some(prompts[l.prompt_id]),
            !.renderedPrompt = renderTemplate(prompts[l.prompt_id].prompt_text, l.data),
            !.completionRequests = @ + 1])
  /\ UNCHANGED <<prompts, history, nextPromptId, nextExecId, now>>

\* The body of the delivery request of executePrompt (lines 70-75), as the
\* object that is serialised: a template_data that is undefined is a key
\* JSON.stringify leaves out.
CronDeliveryBody(l) ==
  [prompt_id |-> l.prompt_id,
   rendered_prompt |-> l.renderedPrompt,
   openai_response |-> l.openaiResponse,
   template_data |-> l.data]

\* Lines 47-76: the completion call answers and its body is parsed; then
\* the delivery request, whatever the status of the answer.
executePromptCompleted(i, o) ==
  LET l == [inv[i] EXCEPT !.completion = Some(o)] IN
  /\ l.handler = "executePrompt" /\ l.pc = "completing"
  /\ IF o.t = "rejected" \/ ~o.parsed
     THEN Set(i, Throw(l, o.e.message))
     ELSE Set(i, [l EXCEPT
            !.pc = "delivering",
            !.openaiResponse = o.body,
            !.sent = Some(CronDeliveryBody([l EXCEPT !.openaiResponse = o.body])),
            !.deliveryRequests = @ + 1])
  /\ UNCHANGED <<prompts, history, nextPromptId, nextExecId, now>>

\* Lines 78-88 and the insert request of line 91.
executePromptDelivered(i, d) ==
  LET l == [inv[i] EXCEPT !.delivery = Some(d)] IN
  /\ l.handler = "executePrompt" /\ l.pc = "delivering"
  /\ IF d.t = "rejected"
     THEN Set(i, [l EXCEPT
            !.pc = "recording",
            !.executionStatus = "failed",
            !.errorMessage = Some("Webhook error: " \o MessageOf(d.e, "Unknown error"))])
     ELSE IF ~d.read
     THEN Set(i, [l EXCEPT
            !.pc = "recording",
            !.webhookResponseStatus = Some(d.status),
            !.executionStatus = "failed",
            !.errorMessage = Some("Webhook error: " \o MessageOf(d.e, "Unknown error"))])
     ELSE IF ~Ok(d.status)
     THEN Set(i, [l EXCEPT
            !.pc = "recording",
            !.webhookResponseStatus = Some(d.status),
            !.webhookResponseBody = Some(d.text),
            !.executionStatus = "failed",
            !.errorMessage = Some("Webhook failed with status " \o ToString(d.status))])
     ELSE Set(i, [l EXCEPT
            !.pc = "recording",
            !.webhookResponseStatus = Some(d.status),
            !.webhookResponseBody = Some(d.text)])
  /\ UNCHANGED <<prompts, history, nextPromptId, nextExecId, now>>

\* A mutant of CronInputData: input.template_data || {}.
CronInputDataOrEmpty(template_data) ==
  IF template_data = Null THEN Some(<<>>) ELSE template_data

\* input.template_data || null: an object, even {}, is truthy.
CronInputData(template_data) == template_data

\* A mutant of executePromptInserted: the record tagged as the other entry
\* point tags it.
executePromptInsertedAsWebhook(i) ==
  /\ inv[i].handler = "executePrompt" /\ inv[i].pc = "recording"
  /\ Insert(i, Row(inv[i], "webhook", CronInputData(inv[i].data)))

\* Lines 91-121: the insert answers.
executePromptInserted(i) ==
  /\ inv[i].handler = "executePrompt" /\ inv[i].pc = "recording"
  /\ Insert(i, Row(inv[i], "cron", CronInputData(inv[i].data)))

----------------------------------------------------------------------------
(* webhookExecution (webhook_execution.ts:7-141), one action per await. *)

\* The call, up to the select.
webhookExecution(i, prompt_id, payload) ==
  /\ Free(i)
  /\ Set(i, [inv[i] EXCEPT !.pc = "fetching-prompt", !.handler = "webhookExecution",
                            !.prompt_id = prompt_id, !.data = payload])
  /\ UNCHANGED <<prompts, history, nextPromptId, nextExecId, now>>

\* Lines 10-57: the select answers; the checks, the rendering and the
\* completion request.
webhookExecutionFetched(i) ==
  LET l == inv[i] IN
  /\ l.handler = "webhookExecution" /\ l.pc = "fetching-prompt"
  /\ IF ~Exists(l.prompt_id)
     THEN Set(i, Throw(l, "Prompt with ID " \o ToString(l.prompt_id) \o " not found"))
     ELSE IF ~Active(prompts[l.prompt_id])
     THEN Set(i, Throw(l, "Prompt with ID " \o ToString(l.prompt_id) \o " is not active"))
     ELSE Set(i, [l EXCEPT
            !.pc = "completing",
            !.prompt = Some(prompts[l.prompt_id]),
            !.renderedPrompt = webhookRender(prompts[l.prompt_id].prompt_text, l.data[1]),
            !.completionRequests = @ + 1])
  /\ UNCHANGED <<prompts, history, nextPromptId, nextExecId, now>>

\* A mutant of Caught: the inner catch rethrows.
Rethrow(l, message) == [l EXCEPT !.pc = "error", !.thrown = Some(message)]

\* Lines 94-102, the catch of the inner try: Object.keys(openaiResponse)
\* throws for null, out of the catch block, and the outer catch rethrows.
Caught(l, message) ==
  IF l.openaiResponse.type = "null"
  THEN Throw(l, "Cannot convert undefined or null to object")
  ELSE [l EXCEPT
         !.pc = "recording",
         !.executionStatus = "failed",
         !.errorMessage = Some(message),
         !.openaiResponse = IF l.openaiResponse.keys = {} THEN ErrorShape(message) ELSE @]

\* openaiResponse['error']?.['message'] || 'Unknown error'
ApiErrorMessage(body) ==
  IF body.errmsg # Null /\ body.errmsg[1] # "" THEN body.errmsg[1] ELSE "Unknown error"

\* A mutant of HasContent: only the presence of choices is tested.
HasChoices(body) == "choices" \in body.keys

\* openaiResponse['choices']?.[0]?.['message']?.['content'], as a condition
HasContent(body) == body.content # Null /\ body.content[1] # ""

\* A mutant of WebhookDeliveryBody: execution_id guessed from the serial
\* of the record that is still to be written.
WebhookDeliveryBodyWithId(l) ==
  [prompt_id |-> l.prompt_id,
   original_payload |-> l.data[1],
   openai_response |-> l.openaiResponse.content,
   execution_id |-> Some(nextExecId)]

\* webhookPayload of lines 67-72: the generated text only (a field that is
\* undefined is left out by JSON.stringify), and execution_id null.
WebhookDeliveryBody(l) ==
  [prompt_id |-> l.prompt_id,
   original_payload |-> l.data[1],
   openai_response |-> l.openaiResponse.content,
   execution_id |-> Null]

\* Lines 59-80: the completion call answers and its body is parsed.
webhookExecutionCompleted(i, o) ==
  LET l == [inv[i] EXCEPT !.completion = Some(o)] IN
  /\ l.handler = "webhookExecution" /\ l.pc = "completing"
  /\ IF o.t = "rejected" \/ ~o.parsed
     THEN Set(i, Caught(l, MessageOf(o.e, "Unknown error occurred")))
     ELSE LET r == [l EXCEPT !.openaiResponse = o.body] IN
          IF o.body.type = "null"
          THEN Set(i, Caught(r, "Cannot read properties of null"))
          ELSE IF ~Ok(o.status)
          THEN Set(i, Caught(r, "OpenAI API error: " \o ApiErrorMessage(o.body)))
          ELSE IF HasContent(o.body)
          THEN Set(i, [r EXCEPT !.pc = "delivering",
                                !.sent = Some(WebhookDeliveryBody(r)),
                                !.deliveryRequests = @ + 1])
          ELSE Set(i, [r EXCEPT
                 !.pc = "recording",
                 !.executionStatus = "failed",
                 !.errorMessage = Some("No content received from OpenAI API")])
  /\ UNCHANGED <<prompts, history, nextPromptId, nextExecId, now>>

\* Lines 82-102 and the insert request of line 105.
webhookExecutionDelivered(i, d) ==
  LET l == [inv[i] EXCEPT !.delivery = Some(d)] IN
  /\ l.handler = "webhookExecution" /\ l.pc = "delivering"
  /\ IF d.t = "rejected"
     THEN Set(i, Caught(l, MessageOf(d.e, "Unknown error occurred")))
     ELSE IF ~d.read
     THEN Set(i, Caught([l EXCEPT !.webhookResponseStatus = Some(d.status)],
                        MessageOf(d.e, "Unknown error occurred")))
     ELSE IF ~Ok(d.status)
     THEN Set(i, [l EXCEPT
            !.pc = "recording",
            !.webhookResponseStatus = Some(d.status),
            !.webhookResponseBody = Some(d.text),
            !.executionStatus = "failed",
            !.errorMessage = Some("Webhook delivery failed with status "
                                    \o ToString(d.status) \o ": " \o d.text)])
     ELSE Set(i, [l EXCEPT
            !.pc = "recording",
            !.webhookResponseStatus = Some(d.status),
            !.webhookResponseBody = Some(d.text)])
  /\ UNCHANGED <<prompts, history, nextPromptId, nextExecId, now>>

\* Lines 105-135: the insert answers.
webhookExecutionInserted(i) ==
  /\ inv[i].handler = "webhookExecution" /\ inv[i].pc = "recording"
  /\ Insert(i, Row(inv[i], "webhook", inv[i].data))

----------------------------------------------------------------------------
(* getExecutionHistory (get_execution_history.ts:7-31). *)

\* A mutant of OrderedDesc: asc in the place of desc.
OrderedAsc(rows) ==
  {q \in [1..Cardinality(rows) -> rows] :
     /\ \A a, b \in DOMAIN q : a # b => q[a] # q[b]
     /\ \A a, b \in DOMAIN q : a < b => q[a].created_at <= q[b].created_at}

\* ORDER BY created_at DESC of a set of rows: the order of two rows with
\* the same created_at is the database's choice.
OrderedDesc(rows) ==
  {q \in [1..Cardinality(rows) -> rows] :
     /\ \A a, b \in DOMAIN q : a # b => q[a] # q[b]
     /\ \A a, b \in DOMAIN q : a < b => q[a].created_at >= q[b].created_at}

\* One select, filtered by prompt_id when promptId is given; the caller has
\* the list when the action is over.
getExecutionHistory(i, promptId) ==
  /\ Free(i)
  /\ \E q \in OrderedDesc({r \in history : promptId = Null \/ r.prompt_id = promptId[1]}) :
       Set(i, [IdleInv EXCEPT !.pc = "returned",
                               !.handler = "getExecutionHistory",
                               !.data = promptId,
                               !.result = Some(q)])
  /\ UNCHANGED <<prompts, history, nextPromptId, nextExecId, now>>

----------------------------------------------------------------------------
(* The specification. *)

Next ==
  \/ nextPromptId <= MaxPrompts /\ \E t \in Templates, a \in BOOLEAN : createPrompt(t, a)
  \/ \E u \in UpdateInputs : updatePrompt(u)
  \/ \E id \in PromptIds : deletePrompt(id)
  \/ \E i \in Slots, id \in PromptIds, m \in TemplateDatas : executePrompt(i, id, m)
  \/ \E i \in Slots : executePromptFetched(i)
  \/ \E i \in Slots, o \in CompletionOutcomes : executePromptCompleted(i, o)
  \/ \E i \in Slots, d \in DeliveryOutcomes : executePromptDelivered(i, d)
  \/ \E i \in Slots : executePromptInserted(i)
  \/ \E i \in Slots, id \in PromptIds, m \in Payloads : webhookExecution(i, id, m)
  \/ \E i \in Slots : webhookExecutionFetched(i)
  \/ \E i \in Slots, o \in CompletionOutcomes : webhookExecutionCompleted(i, o)
  \/ \E i \in Slots, d \in DeliveryOutcomes : webhookExecutionDelivered(i, d)
  \/ \E i \in Slots : webhookExecutionInserted(i)
  \/ \E i \in Slots : respond(i)
  \/ \E i \in Slots, id \in {Null} \cup {Some(k) : k \in PromptIds} :
       getExecutionHistory(i, id)

Spec == Init /\ [][Next]_vars

\* The awaited call of invocation i returns or fails: the select, the
\* completion fetch and its json(), the delivery fetch and its text(), the
\* insert.
Returns(i) ==
  \/ executePromptFetched(i)
  \/ \E o \in CompletionOutcomes : executePromptCompleted(i, o)
  \/ \E d \in DeliveryOutcomes : executePromptDelivered(i, d)
  \/ executePromptInserted(i)
  \/ webhookExecutionFetched(i)
  \/ \E o \in CompletionOutcomes : webhookExecutionCompleted(i, o)
  \/ \E d \in DeliveryOutcomes : webhookExecutionDelivered(i, d)
  \/ webhookExecutionInserted(i)

\* The prompt handlers and the two entry points.
NextFair ==
  \/ nextPromptId <= MaxPrompts /\ \E t \in Templates, a \in BOOLEAN : createPrompt(t, a)
  \/ \E u \in UpdateInputs : updatePrompt(u)
  \/ \E id \in PromptIds : deletePrompt(id)
  \/ \E i \in Slots, id \in PromptIds, m \in TemplateDatas : executePrompt(i, id, m)
  \/ \E i \in Slots, id \in PromptIds, m \in Payloads : webhookExecution(i, id, m)
  \/ \E i \in Slots : Returns(i)
  \/ \E i \in Slots : respond(i)

\* Every awaited call eventually returns or fails.  The handlers have no
\* loop and await each call once, so a call that returns is followed by
\* the handler's next statements.
SpecFair == Init /\ [][NextFair]_vars /\ \A i \in Slots : WF_vars(Returns(i))

----------------------------------------------------------------------------
(* The rendering step alone: one stored prompt whose template is drawn from *)
(* RenderTemplates, and invocations of the two entry points up to the       *)
(* rendering of their prompt, with mappings drawn from RenderMappings.      *)

RenderInv == 2

\* "{{valueOf}}": a key that no mapping of the model has
TplProto == <<"{", "{", "v", "a", "l", "u", "e", "O", "f", "}", "}">>
\* "{{a}}{{c}}": a key the mappings have, and one they do not have
TplAC == <<"{", "{", "a", "}", "}", "{", "{", "c", "}", "}">>

RenderTemplates == {TplA, TplB, TplAC, TplProto}

\* {a: "X"}
DataPlain == <<Entry(<<"a">>, StrV(<<"X">>))>>
\* {a: 42}
DataNumber == <<Entry(<<"a">>, NumV(42))>>
\* {a: "$&"}
DataDollar == <<Entry(<<"a">>, StrV(<<"$", "&">>))>>

RenderMappings == {<<>>, DataPlain, DataNumber, DataDollar, DataNested}

InitRender ==
  /\ \E t \in RenderTemplates :
       prompts = [k \in {1} |->
                    [id |-> 1, prompt_text |-> t, is_active |-> TRUE,
                     created_at |-> 0, updated_at |-> 0]]
  /\ history = {}
  /\ nextPromptId = 2
  /\ nextExecId = 1
  /\ now = 0
  /\ inv = [i \in 1..RenderInv |-> IdleInv]

NextRender ==
  \/ \E i \in 1..RenderInv, m \in {Null} \cup {Some(M) : M \in RenderMappings} :
       executePrompt(i, 1, m)
  \/ \E i \in 1..RenderInv : executePromptFetched(i)
  \/ \E i \in 1..RenderInv, m \in {Some(M) : M \in RenderMappings} :
       webhookExecution(i, 1, m)
  \/ \E i \in 1..RenderInv : webhookExecutionFetched(i)

SpecRender == InitRender /\ [][NextRender]_vars

----------------------------------------------------------------------------
(* The two tables under several prompts and several invocations: every      *)
(* handler of the model, with fewer inputs and fewer answers of the         *)
(* outbound calls than Spec draws.                                          *)

StorePrompts == 2
StoreInv == 2

StoreIds == 1..StorePrompts

\* Deactivate a prompt, or change its template.
StoreUpdateInputs ==
  {[id |-> id, prompt_text |-> Null, is_active |-> Some(FALSE)] : id \in StoreIds}
    \cup {[id |-> id, prompt_text |-> Some(TplB), is_active |-> Null] : id \in StoreIds}

StoreCompletionOutcomes ==
  {JsonBody(200, BodyContent), FetchRejected(Thrown(TRUE, "fetch failed"))}

StoreDeliveryOutcomes == {TextBody(200, "OK"), TextBody(500, "Internal Server Error")}

InitStore ==
  /\ prompts = <<>>
  /\ history = {}
  /\ nextPromptId = 1
  /\ nextExecId = 1
  /\ now = MaxClock  \* the clock at its last value: no time passes here
  /\ inv = [i \in 1..StoreInv |-> IdleInv]

NextStore ==
  \/ nextPromptId <= StorePrompts /\ \E a \in BOOLEAN : createPrompt(TplA, a)
  \/ \E u \in StoreUpdateInputs : updatePrompt(u)
  \/ \E id \in StoreIds : deletePrompt(id)
  \/ \E i \in 1..StoreInv, id \in StoreIds : executePrompt(i, id, Null)
  \/ \E i \in 1..StoreInv : executePromptFetched(i)
  \/ \E i \in 1..StoreInv, o \in StoreCompletionOutcomes : executePromptCompleted(i, o)
  \/ \E i \in 1..StoreInv, d \in StoreDeliveryOutcomes : executePromptDelivered(i, d)
  \/ \E i \in 1..StoreInv : executePromptInserted(i)
  \/ \E i \in 1..StoreInv, id \in StoreIds : webhookExecution(i, id, Some(<<>>))
  \/ \E i \in 1..StoreInv : webhookExecutionFetched(i)
  \/ \E i \in 1..StoreInv, o \in StoreCompletionOutcomes : webhookExecutionCompleted(i, o)
  \/ \E i \in 1..StoreInv, d \in StoreDeliveryOutcomes : webhookExecutionDelivered(i, d)
  \/ \E i \in 1..StoreInv : webhookExecutionInserted(i)
  \/ \E i \in 1..StoreInv : respond(i)
  \/ \E i \in 1..StoreInv, id \in {Null} \cup {Some(k) : k \in StoreIds} :
       getExecutionHistory(i, id)

SpecStore == InitStore /\ [][NextStore]_vars

----------------------------------------------------------------------------
(* The listing of the history: active prompts, invocations whose two        *)
(* outbound calls succeed, a clock that moves, and getExecutionHistory.     *)

HistoryInv == 3

InitHistory ==
  /\ prompts = <<>>
  /\ history = {}
  /\ nextPromptId = 1
  /\ nextExecId = 1
  /\ now = 0
  /\ inv = [i \in 1..HistoryInv |-> IdleInv]

NextHistory ==
  \/ nextPromptId <= StorePrompts /\ createPrompt(TplA, TRUE)
  \/ \E i \in 1..HistoryInv, id \in StoreIds : executePrompt(i, id, Null)
  \/ \E i \in 1..HistoryInv : executePromptFetched(i)
  \/ \E i \in 1..HistoryInv : executePromptCompleted(i, JsonBody(200, BodyContent))
  \/ \E i \in 1..HistoryInv : executePromptDelivered(i, TextBody(200, "OK"))
  \/ \E i \in 1..HistoryInv : executePromptInserted(i)
  \/ \E i \in 1..HistoryInv, id \in StoreIds : webhookExecution(i, id, Some(<<>>))
  \/ \E i \in 1..HistoryInv : webhookExecutionFetched(i)
  \/ \E i \in 1..HistoryInv : webhookExecutionCompleted(i, JsonBody(200, BodyContent))
  \/ \E i \in 1..HistoryInv : webhookExecutionDelivered(i, TextBody(200, "OK"))
  \/ \E i \in 1..HistoryInv : webhookExecutionInserted(i)
  \/ \E i \in 1..HistoryInv : respond(i)
  \/ \E i \in 1..HistoryInv, id \in {Null} \cup {Some(k) : k \in StoreIds} :
       getExecutionHistory(i, id)

SpecHistory == InitHistory /\ [][NextHistory]_vars

----------------------------------------------------------------------------
(* The prompt CRUD handlers and what they answer their caller: slot 0 of    *)
(* inv holds the last reply.                                                *)

InitCrud ==
  /\ prompts = <<>>
  /\ history = {}
  /\ nextPromptId = 1
  /\ nextExecId = 1
  /\ now = 0
  /\ inv = [i \in {0} |-> [IdleInv EXCEPT !.pc = "caller"]]

NextCrud ==
  \/ nextPromptId <= StorePrompts /\ \E t \in Templates, a \in BOOLEAN : createPrompt(t, a)
  \/ \E u \in UpdateInputs : updatePrompt(u)
  \/ \E id \in PromptIds : deletePrompt(id)

SpecCrud == InitCrud /\ [][NextCrud]_vars

----------------------------------------------------------------------------
(* What the claims speak of. *)

Invocations == DOMAIN inv

\* The step in which invocation i has the answer of its select.
FetchAnswers(i) == inv[i].pc = "fetching-prompt" /\ inv'[i].pc # "fetching-prompt"

\* Nothing written and nothing sent by an invocation with locals l.
NothingDone(l) ==
  l.completionRequests = 0 /\ l.deliveryRequests = 0 /\ l.inserted = 0

NotActiveErrors(id) ==
  {"Prompt with id " \o ToString(id) \o " is not active",
   "Prompt with ID " \o ToString(id) \o " is not active"}

NotFoundErrors(id) ==
  {"Prompt with id " \o ToString(id) \o " not found",
   "Prompt with ID " \o ToString(id) \o " not found"}

\* C1: when the select of either entry point answers with a prompt whose
\* is_active is false, the invocation rejects with an "is not active"
\* error, and at that moment it has written no record and issued no
\* completion or delivery request.
C1_InactiveRejected ==
  [][\A i \in Invocations :
       (/\ FetchAnswers(i)
        /\ Exists(inv[i].prompt_id)
        /\ ~prompts[inv[i].prompt_id].is_active)
         => /\ inv'[i].pc = "error"
            /\ inv'[i].thrown # Null
            /\ inv'[i].thrown[1] \in NotActiveErrors(inv[i].prompt_id)
            /\ NothingDone(inv'[i])
            /\ history' = history]_vars

C1_Witness ==
  \E i \in Invocations :
    /\ inv[i].handler = "webhookExecution"
    /\ inv[i].pc = "error"
    /\ inv[i].thrown = Some("Prompt with ID 1 is not active")
    /\ Exists(1) /\ ~prompts[1].is_active
    /\ history = {}

\* C2: when the select of either entry point answers that no prompt has
\* the identifier, the invocation rejects with a not-found error, writes no
\* record and issues no completion or delivery request.
C2_NotFoundRejected ==
  [][\A i \in Invocations :
       (FetchAnswers(i) /\ ~Exists(inv[i].prompt_id))
         => /\ inv'[i].pc = "error"
            /\ inv'[i].thrown # Null
            /\ inv'[i].thrown[1] \in NotFoundErrors(inv[i].prompt_id)
            /\ NothingDone(inv'[i])
            /\ history' = history]_vars

C2_Witness ==
  \E i \in Invocations :
    /\ inv[i].handler = "executePrompt"
    /\ inv[i].pc = "error"
    /\ inv[i].thrown = Some("Prompt with id 2 not found")
    /\ ~Exists(2)
    /\ NothingDone(inv[i])

\* C3: an invocation of either entry point that found its prompt active
\* (so that it issued its completion request) does not throw, whatever the
\* completion and the delivery call answer, unless the insert of its record
\* fails; when it is done it has added one record and returns it.
C3_EveryAttemptRecorded ==
  \A i \in Invocations :
    /\ (inv[i].pc = "error" /\ inv[i].completionRequests > 0)
         => inv[i].thrown = Some(InsertError)
    /\ inv[i].pc = "done" => (inv[i].inserted = 1 /\ inv[i].result # Null)

\* The answer of the completion call that invocation l has: one with a
\* status, and its kinds.
Answered(l) == l.completion # Null /\ l.completion[1].t = "response"
Unanswered(l) ==
  l.completion # Null /\ (l.completion[1].t = "rejected" \/ ~l.completion[1].parsed)
Success2xx(status) == status \in 200..299

\* The fields of the record the invocation l is about to write or wrote.
Recording(l) == l.pc \in {"recording", "done"}

\* C4: in either entry point, after a completion answer with a non-2xx
\* status no delivery request is issued, and the record has status failed,
\* an error message and no delivery status.
C4_CompletionStatusFails ==
  \A i \in Invocations :
    LET l == inv[i] IN
    (Answered(l) /\ ~Success2xx(l.completion[1].status))
      => /\ l.deliveryRequests = 0
         /\ Recording(l)
              => /\ l.executionStatus = "failed"
                 /\ l.errorMessage # Null
                 /\ l.webhookResponseStatus = Null

\* C5: in either entry point, when the completion request fails in
\* transport (the request rejects, or the body does not parse), the
\* invocation does not throw: no delivery request is issued and the record
\* has status failed, an error message, no delivery status and the
\* response {error: message}.
C5_TransportFailureRecorded ==
  \A i \in Invocations :
    LET l == inv[i] IN
    Unanswered(l)
      => /\ l.deliveryRequests = 0
         /\ l.pc = "error" => l.thrown = Some(InsertError)
         /\ Recording(l)
              => /\ l.executionStatus = "failed"
                 /\ l.errorMessage # Null
                 /\ l.webhookResponseStatus = Null
                 /\ l.openaiResponse = ErrorShape(l.errorMessage[1])

\* C6: in webhookExecution, after a completion answer with a success
\* status and no choices[0].message.content, no delivery request is
\* issued, and the record has status failed, the error message "No content
\* received from OpenAI API" and no delivery status.
C6_NoContentFails ==
  \A i \in Invocations :
    LET l == inv[i] IN
    (/\ l.handler = "webhookExecution"
     /\ Answered(l) /\ l.completion[1].parsed
     /\ Success2xx(l.completion[1].status)
     /\ l.completion[1].body.content = Null)
      => /\ l.deliveryRequests = 0
         /\ Recording(l)
              => /\ l.executionStatus = "failed"
                 /\ l.errorMessage = Some("No content received from OpenAI API")
                 /\ l.webhookResponseStatus = Null
         /\ l.pc = "done"
              => /\ l.result[1].execution_status = "failed"
                 /\ l.result[1].error_message = Some("No content received from OpenAI API")
                 /\ l.result[1].webhook_response_status = Null

C6_Witness ==
  \E i \in Invocations :
    /\ inv[i].handler = "webhookExecution"
    /\ inv[i].pc = "done"
    /\ inv[i].completion = Some(JsonBody(200, BodyNoContent))
    /\ inv[i].result[1].error_message = Some("No content received from OpenAI API")
    /\ inv[i].result[1] \in history

\* The delivery answer that invocation l has, and its kinds.
DeliveryAnswered(l) == l.delivery # Null /\ l.delivery[1].t = "response" /\ l.delivery[1].read
DeliveryRejected(l) == l.delivery # Null /\ l.delivery[1].t = "rejected"

DeliveryFailedErrors(status, body) ==
  {"Webhook failed with status " \o ToString(status),
   "Webhook delivery failed with status " \o ToString(status) \o ": " \o body}

\* C7: in either entry point, after a delivery answer with a non-2xx status
\* s and body b, the record has status failed, delivery status s, delivery
\* body b, and an error message that names the webhook failure and s.
C7_DeliveryStatusFails ==
  \A i \in Invocations :
    LET l == inv[i] IN
    (DeliveryAnswered(l) /\ ~Success2xx(l.delivery[1].status))
      => LET s == l.delivery[1].status
             b == l.delivery[1].text
         IN /\ Recording(l)
                 => /\ l.executionStatus = "failed"
                    /\ l.webhookResponseStatus = Some(s)
                    /\ l.webhookResponseBody = Some(b)
                    /\ l.errorMessage # Null
                    /\ l.errorMessage[1] \in DeliveryFailedErrors(s, b)
            /\ l.pc = "done"
                 => /\ l.result[1].execution_status = "failed"
                    /\ l.result[1].webhook_response_status = Some(s)
                    /\ l.result[1].webhook_response_body = Some(b)
                    /\ l.result[1].error_message = l.errorMessage

C7_Witness ==
  \E i \in Invocations :
    /\ inv[i].handler = "executePrompt"
    /\ inv[i].pc = "done"
    /\ inv[i].delivery = Some(TextBody(500, "Internal Server Error"))
    /\ inv[i].result[1].webhook_response_status = Some(500)
    /\ inv[i].result[1].error_message = Some("Webhook failed with status 500")
    /\ inv[i].result[1] \in history

\* C8: in either entry point, when the delivery request rejects, the
\* invocation does not throw for it (it goes on to its insert): the record
\* has status failed, no delivery status, no delivery body, an error
\* message, and the completion response that was received.
C8_DeliveryRejectionRecorded ==
  \A i \in Invocations :
    LET l == inv[i] IN
    DeliveryRejected(l)
      => /\ l.pc \in {"recording", "done", "error"}
         /\ l.pc = "error" => l.thrown = Some(InsertError)
         /\ Recording(l)
              => /\ l.executionStatus = "failed"
                 /\ l.webhookResponseStatus = Null
                 /\ l.webhookResponseBody = Null
                 /\ l.errorMessage # Null
                 /\ l.openaiResponse = l.completion[1].body
         /\ l.pc = "done"
              => /\ l.result[1].execution_status = "failed"
                 /\ l.result[1].webhook_response_status = Null
                 /\ l.result[1].webhook_response_body = Null
                 /\ l.result[1].error_message # Null
                 /\ l.result[1].openai_response = l.completion[1].body

C8_Witness ==
  \E i \in Invocations :
    /\ inv[i].handler = "webhookExecution"
    /\ inv[i].pc = "done"
    /\ inv[i].delivery = Some(SendRejected(Thrown(TRUE, "connect ECONNREFUSED")))
    /\ inv[i].result[1].openai_response = BodyContent
    /\ inv[i].result[1].error_message = Some("connect ECONNREFUSED")
    /\ inv[i].result[1] \in history

\* The keys of a mapping, and the value of one of them.
Keys(M) == {M[j].key : j \in 1..Len(M)}
ValueOf(M, key) == M[CHOOSE j \in 1..Len(M) : M[j].key = key].value

\* The template T with every placeholder whose key is in the mapping M
\* replaced by the string of its value, in one pass from left to right.
RECURSIVE SubstitutedFrom(_, _, _)
SubstitutedFrom(T, M, i) ==
  IF i > Len(T) THEN <<>>
  ELSE LET n == MatchAt(T, i)
           key == SubSeq(T, i + 2, i + n + 1)
       IN IF n = 0 THEN <<T[i]>> \o SubstitutedFrom(T, M, i + 1)
          ELSE (IF key \in Keys(M) THEN JSString(ValueOf(M, key))
                ELSE SubSeq(T, i, i + n + 3))
                 \o SubstitutedFrom(T, M, i + n + 4)

Substituted(T, data) == SubstitutedFrom(T, IF data = Null THEN <<>> ELSE data[1], 1)

\* C9: in either entry point, after a completion answer with generated
\* text and a delivery answer with a 2xx status, the record has status
\* success, no error message, the delivery status that was returned, and
\* as rendered prompt the template with every placeholder of the mapping
\* substituted.
C9_SuccessRecord ==
  \A i \in Invocations :
    LET l == inv[i] IN
    (/\ l.pc = "done"
     /\ Answered(l) /\ l.completion[1].parsed
     /\ Success2xx(l.completion[1].status)
     /\ l.completion[1].body = BodyContent
     /\ DeliveryAnswered(l) /\ Success2xx(l.delivery[1].status))
      => /\ l.result[1].execution_status = "success"
         /\ l.result[1].error_message = Null
         /\ l.result[1].webhook_response_status = Some(l.delivery[1].status)
         /\ l.result[1].rendered_prompt = Substituted(l.prompt[1].prompt_text, l.data)

\* C10: in every execution record, error_message is not null exactly when
\* execution_status is failed.
C10_ErrorIffFailed ==
  /\ \A r \in history : (r.error_message # Null) <=> (r.execution_status = "failed")
  /\ \A i \in Invocations :
       inv[i].pc = "done"
         => ((inv[i].result[1].error_message # Null)
               <=> (inv[i].result[1].execution_status = "failed"))

C10_Witness ==
  /\ \E r \in history : r.execution_status = "failed" /\ r.error_message # Null
  /\ \E i \in Invocations : inv[i].pc = "done" /\ inv[i].result[1] \in history

\* The delivery call of invocation l was answered with a response (its
\* status line arrived), whether or not its body could be read.
DeliveryResponded(l) == l.delivery # Null /\ l.delivery[1].t = "response"

\* C11: the record of an invocation that issued no delivery request has
\* neither a delivery status nor a delivery body, and the record of an
\* invocation whose delivery call was answered with a response has the
\* HTTP status of that response as its delivery status.
C11_DeliveryFields ==
  \A i \in Invocations :
    LET l == inv[i] IN
    /\ (Recording(l) /\ l.deliveryRequests = 0)
         => l.webhookResponseStatus = Null /\ l.webhookResponseBody = Null
    /\ (Recording(l) /\ DeliveryResponded(l))
         => l.webhookResponseStatus = Some(l.delivery[1].status)
    /\ (l.pc = "done" /\ l.deliveryRequests = 0)
         => /\ l.result[1].webhook_response_status = Null
            /\ l.result[1].webhook_response_body = Null
    /\ (l.pc = "done" /\ DeliveryResponded(l))
         => l.result[1].webhook_response_status = Some(l.delivery[1].status)

\* A response whose body could not be read: the record has its status.
C11_Witness ==
  \E i \in Invocations :
    /\ inv[i].pc = "done"
    /\ inv[i].delivery = Some(TextRejected(200, Thrown(TRUE, "terminated")))
    /\ inv[i].result[1].webhook_response_status = Some(200)
    /\ inv[i].result[1].webhook_response_body = Null
    /\ inv[i].result[1] \in history

\* The trigger kind of each entry point.
TriggerOf(handler) == IF handler = "executePrompt" THEN "cron" ELSE "webhook"

\* C12: the record an invocation wrote has trigger_type cron when it is an
\* invocation of executePrompt and webhook when it is one of
\* webhookExecution, whatever the completion and the delivery call
\* answered, and its prompt_id is the prompt identifier of the invocation.
C12_TriggerAndPrompt ==
  \A i \in Invocations :
    LET l == inv[i] IN
    l.pc = "done"
      => /\ l.handler \in {"executePrompt", "webhookExecution"}
         /\ l.result[1].trigger_type = TriggerOf(l.handler)
         /\ l.result[1].prompt_id = l.prompt_id

\* A failed record of executePrompt, stored with the trigger cron.
C12_Witness ==
  \E i \in Invocations :
    /\ inv[i].pc = "done"
    /\ inv[i].handler = "executePrompt"
    /\ inv[i].result[1].execution_status = "failed"
    /\ inv[i].result[1].trigger_type = "cron"
    /\ inv[i].result[1].prompt_id = 1
    /\ inv[i].result[1] \in history

\* The invocation l has rendered its prompt.
Rendered(l) == l.prompt # Null

\* C13: the rendered prompt of an invocation of either entry point is the
\* template with every placeholder whose key is in the mapping replaced by
\* the string of its value and every other placeholder left as it is; with
\* an empty or absent mapping it is the template.
C13_RenderSubstitutes ==
  \A i \in Invocations :
    LET l == inv[i] IN
    Rendered(l)
      => /\ l.renderedPrompt = Substituted(l.prompt[1].prompt_text, l.data)
         /\ (l.data = Null \/ l.data = Some(<<>>))
              => l.renderedPrompt = l.prompt[1].prompt_text

\* The placeholder token of a key, and the occurrence of a text in another.
Token(key) == <<"{", "{">> \o key \o <<"}", "}">>
Occurs(pat, s) == \E p \in 1..Len(s) : LiteralAt(s, p, pat)

\* C14: in either entry point, when the template holds the placeholder of a
\* key whose value in the mapping holds the placeholder token of another
\* key of the mapping, that token is in the rendered prompt as it was in
\* the value: it is not substituted again.
C14_NoNestedSubstitution ==
  \A i \in Invocations :
    LET l == inv[i] IN
    (Rendered(l) /\ l.data # Null)
      => LET M == l.data[1]
             T == l.prompt[1].prompt_text
         IN \A j, k \in 1..Len(M) :
              (/\ j # k
               /\ Occurs(Token(M[k].key), JSString(M[j].value))
               /\ Occurs(Token(M[j].key), T))
                => Occurs(Token(M[k].key), l.renderedPrompt)

\* C15: an invocation of executePrompt with template_data M and an
\* invocation of webhookExecution with payload M, for the same prompt
\* template, have the same rendered prompt.
C15_SharedRendering ==
  \A i, j \in Invocations :
    (/\ Rendered(inv[i]) /\ inv[i].handler = "executePrompt"
     /\ Rendered(inv[j]) /\ inv[j].handler = "webhookExecution"
     /\ inv[i].prompt[1].prompt_text = inv[j].prompt[1].prompt_text
     /\ inv[i].data = inv[j].data)
      => inv[i].renderedPrompt = inv[j].renderedPrompt

\* Invocations i and j rendered the same template with the same mapping in
\* the same entry point.
SameRendering(i, j) ==
  /\ Rendered(inv[i]) /\ Rendered(inv[j])
  /\ inv[i].handler = inv[j].handler
  /\ inv[i].prompt[1].prompt_text = inv[j].prompt[1].prompt_text
  /\ inv[i].data = inv[j].data

C17_CascadeDelete ==
  /\ [](\A r \in history : Exists(r.prompt_id))
  /\ [][\A id \in DOMAIN prompts \ DOMAIN prompts' :
          history' = {r \in history : r.prompt_id # id}]_vars

\* Prompt 1 is deleted and the record an invocation wrote for it is gone,
\* while a record of prompt 2 is still stored.
C17_Witness ==
  /\ ~Exists(1) /\ Exists(2)
  /\ \E r \in history : r.prompt_id = 2
  /\ \E i \in Invocations :
       /\ inv[i].pc = "done"
       /\ inv[i].result[1].prompt_id = 1
       /\ inv[i].result[1] \notin history

\* C18: a stored execution record is never modified: in every step, a
\* record that was stored is still stored with every field as it was,
\* unless the step deleted the prompt of the record; no step stores a
\* different row under the id of a stored record.
C18_RecordsImmutable ==
  [][/\ \A r \in history :
          r \notin history'
            => (r.prompt_id \in DOMAIN prompts /\ r.prompt_id \notin DOMAIN prompts')
     /\ \A p \in history, q \in history' : q.id = p.id => q = p]_vars

\* The first record, as it was written from the template "{{a}}!", after
\* its prompt was updated to another template and after a call of
\* getExecutionHistory returned it.
C18_Witness ==
  \E r \in history :
    /\ r.id = 1
    /\ r.rendered_prompt = TplA
    /\ prompts[r.prompt_id].prompt_text = TplB
    /\ \E i \in Invocations :
         /\ inv[i].handler = "getExecutionHistory"
         /\ inv[i].result = Some(<<r>>)

\* The handlers whose invocations C19 is about.
EntryPoints == {"executePrompt", "webhookExecution"}

\* C19: no step of an invocation of executePrompt or webhookExecution
\* changes the prompts table: the rows and every field of every row are
\* after the step as they were before it, whether the invocation goes on,
\* returns a record or throws.
C19_PromptsReadOnly ==
  [][\A i \in Invocations :
       (inv'[i] # inv[i] /\ (inv[i].handler \in EntryPoints \/ inv'[i].handler \in EntryPoints))
         => prompts' = prompts /\ nextPromptId' = nextPromptId]_vars

\* One invocation returned its record and another threw, and both prompts
\* are as createPrompt wrote them.
C19_Witness ==
  /\ \E i, j \in Invocations :
       /\ inv[i].pc = "done" /\ inv[i].result[1] \in history
       /\ inv[j].pc = "error" /\ inv[j].thrown = Some("fetch failed")
  /\ DOMAIN prompts = {1, 2}
  /\ \A k \in {1, 2} :
       prompts[k] = [id |-> k, prompt_text |-> TplA, is_active |-> TRUE,
                     created_at |-> MaxClock, updated_at |-> MaxClock]

\* C20: an invocation of either entry point issues at most one completion
\* request and at most one delivery request, and it has issued a delivery
\* request only if its completion call was answered with a success status
\* and a body that parsed.
C20_SingleAttempts ==
  \A i \in Invocations :
    LET l == inv[i] IN
    /\ l.completionRequests <= 1
    /\ l.deliveryRequests <= 1
    /\ l.deliveryRequests > 0
         => /\ Answered(l) /\ l.completion[1].parsed
            /\ Success2xx(l.completion[1].status)

Lists(i) == inv[i].pc = "idle" /\ inv'[i].handler = "getExecutionHistory"

\* The stored records a call with the argument promptId is about.
Selected(promptId) ==
  {r \in history : promptId = Null \/ r.prompt_id = promptId[1]}

\* C22: getExecutionHistory(promptId) returns each stored record whose
\* prompt_id is promptId once and no other row (every stored record when
\* promptId is left out, the empty list when there is none), a record
\* never after one with an earlier created_at; it changes no table.
C22_HistoryListing ==
  [][\A i \in Invocations :
       Lists(i)
         => LET q == inv'[i].result[1]
                sel == Selected(inv'[i].data)
            IN /\ {q[k] : k \in DOMAIN q} = sel
               /\ Len(q) = Cardinality(sel)
               /\ \A a, b \in DOMAIN q : a < b => q[a].created_at >= q[b].created_at
               /\ UNCHANGED <<prompts, history>>]_vars

\* A listing of two records of different creation times, the later first.
C22_Witness ==
  \E i \in Invocations :
    /\ inv[i].handler = "getExecutionHistory"
    /\ inv[i].data = Null
    /\ Len(inv[i].result[1]) = 2
    /\ inv[i].result[1][1].created_at > inv[i].result[1][2].created_at
    /\ inv[i].result[1][1].id > inv[i].result[1][2].id

\* A listing for prompt 1 that leaves out the record of prompt 2.
C22_WitnessFiltered ==
  \E i \in Invocations :
    /\ inv[i].handler = "getExecutionHistory"
    /\ inv[i].data = Some(1)
    /\ Len(inv[i].result[1]) = 1
    /\ Cardinality(history) = 2

\* The step in which the caller has the reply of a call of the handler.
Replies(handler) ==
  /\ inv'[0].handler = handler
  /\ (inv[0].handler # handler \/ inv'[0] # inv[0])

\* C23: updatePrompt of an id that exists changes, in the row of that id,
\* the fields its input has and updated_at, and nothing else: id,
\* created_at and the fields the input does not have are as they were, and
\* so is every other prompt; for an id that does not exist it throws a
\* not-found error and changes no row.
C23_UpdateFrame ==
  [][Replies("updatePrompt")
       => LET u == inv'[0].data[1] IN
          IF u.id \in DOMAIN prompts
          THEN /\ DOMAIN prompts' = DOMAIN prompts
               /\ \A k \in DOMAIN prompts \ {u.id} : prompts'[k] = prompts[k]
               /\ prompts'[u.id].id = prompts[u.id].id
               /\ prompts'[u.id].created_at = prompts[u.id].created_at
               /\ prompts'[u.id].prompt_text =
                    (IF u.prompt_text = Null THEN prompts[u.id].prompt_text
                     ELSE u.prompt_text[1])
               /\ prompts'[u.id].is_active =
                    (IF u.is_active = Null THEN prompts[u.id].is_active
                     ELSE u.is_active[1])
               /\ inv'[0].thrown = Null
               /\ inv'[0].result = Some(prompts'[u.id])
          ELSE /\ prompts' = prompts
               /\ inv'[0].thrown =
                    Some("Prompt with id " \o ToString(u.id) \o " not found")]_vars

\* Prompt 1, created active with "{{a}}!", after an update of its template
\* only, made later: the new template, still active, created_at as it was;
\* prompt 2 is there as well.
C23_Witness ==
  /\ inv[0].handler = "updatePrompt"
  /\ inv[0].data = Some([id |-> 1, prompt_text |-> Some(TplB), is_active |-> Null])
  /\ inv[0].thrown = Null
  /\ DOMAIN prompts = {1, 2}
  /\ prompts[1].prompt_text = TplB
  /\ prompts[1].is_active
  /\ prompts[1].created_at < prompts[1].updated_at

\* An update of an id that does not exist threw.
C23_WitnessNotFound ==
  /\ inv[0].handler = "updatePrompt"
  /\ inv[0].thrown = Some("Prompt with id 2 not found")
  /\ DOMAIN prompts = {1}

\* C24: deletePrompt(id) returns success true exactly when a prompt with
\* that id existed and success false, without throwing, when none did;
\* after it no prompt has the id, and every other prompt is as it was.
C24_DeletePrompt ==
  [][Replies("deletePrompt")
       => LET id == inv'[0].data[1] IN
          /\ inv'[0].thrown = Null
          /\ inv'[0].result = Some([success |-> id \in DOMAIN prompts])
          /\ id \notin DOMAIN prompts'
          /\ DOMAIN prompts' = DOMAIN prompts \ {id}
          /\ \A k \in DOMAIN prompts' : prompts'[k] = prompts[k]]_vars

\* Prompt 1 was deleted with success true, and prompt 2 is still there.
C24_Witness ==
  /\ inv[0].handler = "deletePrompt"
  /\ inv[0].data = Some(1)
  /\ inv[0].result = Some([success |-> TRUE])
  /\ DOMAIN prompts = {2}

\* A delete of an id that no prompt has answered success false.
C24_WitnessMissing ==
  /\ inv[0].handler = "deletePrompt"
  /\ inv[0].data = Some(2)
  /\ inv[0].result = Some([success |-> FALSE])
  /\ inv[0].thrown = Null
  /\ DOMAIN prompts = {1}

\* The step in which invocation i issues a completion or a delivery
\* request.
Requests(i) ==
  \/ inv'[i].completionRequests > inv[i].completionRequests
  \/ inv'[i].deliveryRequests > inv[i].deliveryRequests

\* C25: under every interleaving of the steps of updatePrompt and of the
\* two entry points, an invocation issues no completion and no delivery
\* request for its prompt at a moment when the prompt is stored with
\* is_active false.
C25_InactiveNeverExecuted ==
  [][\A i \in Invocations :
       (Requests(i) /\ Exists(inv'[i].prompt_id))
         => prompts[inv'[i].prompt_id].is_active]_vars

\* The step in which invocation i leaves recording: its insert answers.
Written(i) == inv[i].pc = "recording" /\ inv'[i].pc # "recording"

\* C26: a failed insert is thrown to the caller and adds no record; when
\* the prompt was deleted after the invocation fetched it, the insert
\* fails, no record of the deleted prompt is stored, and the completion
\* and delivery requests made stay made.
C26_InsertFailurePropagates ==
  [][/\ \A i \in Invocations :
          Written(i) =>
            /\ ~Exists(inv[i].prompt_id) => inv'[i].pc = "error"
            /\ inv'[i].pc = "error" =>
                  /\ inv'[i].thrown = Some(InsertError)
                  /\ inv'[i].result = Null
                  /\ history' = history
                  /\ inv'[i].completionRequests = inv[i].completionRequests
                  /\ inv'[i].deliveryRequests = inv[i].deliveryRequests
     /\ \A r \in history' : r.prompt_id \in DOMAIN prompts']_vars

\* An invocation whose prompt was deleted while it ran has thrown the
\* insert's error after its completion and delivery requests.
C26_Witness ==
  \E i \in Invocations :
    /\ inv[i].pc = "error"
    /\ inv[i].thrown = Some(InsertError)
    /\ ~Exists(inv[i].prompt_id)
    /\ inv[i].completionRequests = 1
    /\ inv[i].deliveryRequests = 1

\* C27: invocations are not coordinated.  A step changes the locals of one
\* invocation at most; an invocation whose insert succeeds adds one record
\* under an id no stored record has, and the record's prompt, rendered
\* prompt, completion response, delivery status and status are those of
\* the invocation's own fetch, completion answer and delivery answer.
C27_Uncoordinated ==
  /\ [](\A r1 \in history, r2 \in history : r1.id = r2.id => r1 = r2)
  /\ [][/\ \A i \in Invocations, j \in Invocations :
            i # j => (inv'[i] = inv[i] \/ inv'[j] = inv[j])
        /\ \A i \in Invocations :
             (Written(i) /\ inv'[i].pc = "done") =>
               LET l == inv[i]
                   r == inv'[i].result[1]
               IN /\ \A h \in history : h.id # r.id
                  /\ history' = history \cup {r}
                  /\ r.prompt_id = l.prompt_id
                  /\ r.trigger_type = TriggerOf(l.handler)
                  /\ r.rendered_prompt = Substituted(l.prompt[1].prompt_text, l.data)
                  /\ Answered(l) => r.openai_response = l.completion[1].body
                  /\ ~Answered(l) => r.execution_status = "failed"
                  /\ DeliveryResponded(l) =>
                       /\ r.webhook_response_status = Some(l.delivery[1].status)
                       /\ r.execution_status =
                            (IF Success2xx(l.delivery[1].status)
                             THEN "success" ELSE "failed")
                  /\ ~DeliveryResponded(l) => r.webhook_response_status = Null]_vars

\* Two invocations of the same prompt, one of each entry point, have both
\* written their record; the one that started first wrote last, and the
\* two records differ in rendered prompt and in status.
C27_Witness ==
  /\ 1 \in Invocations /\ 2 \in Invocations
  /\ inv[1].pc = "done" /\ inv[2].pc = "done"
  /\ inv[1].handler # inv[2].handler
  /\ inv[1].prompt_id = inv[2].prompt_id
  /\ inv[1].result[1].id > inv[2].result[1].id
  /\ inv[1].result[1].rendered_prompt # inv[2].result[1].rendered_prompt
  /\ inv[1].result[1].execution_status # inv[2].result[1].execution_status
  /\ {inv[1].result[1], inv[2].result[1]} \subseteq history

\* C28: a record with status success has a 2xx delivery status, and the
\* invocation that wrote it had a completion answer with a success status
\* and a delivery answer with a 2xx status.
C28_SuccessMeansBothSucceeded ==
  /\ \A r \in history :
       r.execution_status = "success"
         => /\ r.webhook_response_status # Null
            /\ Success2xx(r.webhook_response_status[1])
  /\ \A i \in Invocations :
       LET l == inv[i] IN
       (l.pc = "done" /\ l.result[1].execution_status = "success")
         => /\ Answered(l) /\ Success2xx(l.completion[1].status)
            /\ DeliveryResponded(l) /\ Success2xx(l.delivery[1].status)

\* The order of the positions of an invocation.  The rendering has no
\* await: it is done in the step that has the answer of the select.
Rank(pc) ==
  CASE pc = "idle" -> 0
    [] pc = "fetching-prompt" -> 1
    [] pc = "completing" -> 2
    [] pc = "delivering" -> 3
    [] pc = "recording" -> 4
    [] pc \in {"done", "error"} -> 5
    [] pc = "returned" -> 6

\* C29: an invocation of either entry point only moves forward through
\* fetching-prompt, completing, delivering and recording, and, every
\* awaited call returning or failing, it ends in done with a record or in
\* error with a thrown error.
C29_Terminates ==
  /\ [][\A i \in Invocations :
          inv'[i].pc # inv[i].pc => Rank(inv'[i].pc) > Rank(inv[i].pc)]_vars
  /\ [](\A i \in Invocations :
          /\ inv[i].pc = "done" => inv[i].result # Null /\ inv[i].thrown = Null
          /\ inv[i].pc = "error" => inv[i].thrown # Null /\ inv[i].result = Null)
  /\ \A i \in Slots :
       (inv[i].pc = "fetching-prompt") ~> (inv[i].pc \in {"done", "error"})

\* An invocation went through every position: it made both requests and
\* has the record it wrote.
C29_Witness ==
  \E i \in Invocations :
    /\ inv[i].pc = "done"
    /\ inv[i].completionRequests = 1 /\ inv[i].deliveryRequests = 1
    /\ inv[i].inserted = 1
    /\ inv[i].result # Null

\* C30: the record an entry point returns is the record it stored.  In the
\* state after the insert the history has exactly one record with the
\* returned id, equal to the returned value in every field; its input_data
\* is the payload of webhookExecution or the template_data of
\* executePrompt, and null when executePrompt was called without
\* template_data.
C30_ReturnedIsPersisted ==
  [][\A i \in Invocations :
       (Written(i) /\ inv'[i].pc = "done") =>
         LET v == inv'[i].result[1] IN
         /\ Cardinality({r \in history' : r.id = v.id}) = 1
         /\ \A r \in history' : r.id = v.id => r = v
         /\ v.prompt_id = inv[i].prompt_id
         /\ v.trigger_type = TriggerOf(inv[i].handler)
         /\ v.input_data = inv[i].data
         /\ v.rendered_prompt = inv[i].renderedPrompt
         /\ (inv[i].handler = "executePrompt" /\ inv[i].data = Null)
              => v.input_data = Null]_vars

\* executePrompt called without template_data has returned a record that
\* is in the history and has no input_data.
C30_Witness ==
  \E i \in Invocations :
    /\ inv[i].pc = "done"
    /\ inv[i].handler = "executePrompt"
    /\ inv[i].data = Null
    /\ inv[i].result[1].input_data = Null
    /\ inv[i].result[1] \in history

\* webhookExecution called with a payload has returned a record that is in
\* the history and has the payload as input_data.
C30_WitnessPayload ==
  \E i \in Invocations :
    /\ inv[i].pc = "done"
    /\ inv[i].handler = "webhookExecution"
    /\ inv[i].data # Some(<<>>)
    /\ inv[i].result[1].input_data = inv[i].data
    /\ inv[i].result[1] \in history

====
